---- MODULE Spec2Model ----
(***************************************************************************)
(* Iterqueue (src/iterqueue/iterqueue.py): a queue.Queue subclass with a   *)
(* status (Unstarted, Started, Stopped, Canceled), a count of open writer  *)
(* scopes (the context manager), a one-way canceled event, a polling get   *)
(* and two iteration shapes (the blocking iterator and iter_nowait).       *)
(*                                                                         *)
(* Every method is split at the points where another thread can run        *)
(* between two of its reads or writes of the shared fields.  A thread is   *)
(* at pc "idle" between two calls.                                         *)
(***************************************************************************)
EXTENDS Integers, Sequences, FiniteSets, TLC

\* ---------------------------------------------------------------- bounds
\* Number of put calls made in a behaviour (the items are 1..MaxItems).
MaxItems == 2
\* The same for the single-threaded scenarios.
SeqItems == 4
\* Number of items put before the pool of readers starts.
PoolItems == 3
\* The capacity of the bounded queue (maxsize = 0 is the unbounded one).
MaxSize == 2
\* The last instant of the clock read by time.time().
MaxTime == 2

\* --------------------------------------------------------------- threads
Writers == {"w1", "w2"}
Readers == {"r1"}
Cancellers == {"c1"}
\* The thread of the single-threaded scenarios (the unit tests' main thread).
Main == "main"
\* The reader threads that share one filled queue.
PoolReaders == {"r1", "r2"}
Threads == Writers \cup {"w3"} \cup Readers \cup PoolReaders \cup Cancellers \cup {Main}

NoThread == "nobody"
\* Python's None for timeout and deadline.
None == -1

\* ------------------------------------------------------------ exceptions
\* The exception classes and their base class: Canceled derives from
\* StopIteration; queue.Empty and queue.Full derive from Exception.
BaseOf(cls) ==
    CASE cls = "Canceled" -> "StopIteration"
      [] cls = "StopIteration" -> "Exception"
      [] cls = "Empty" -> "Exception"
      [] cls = "Full" -> "Exception"
      [] cls = "RuntimeError" -> "Exception"
      [] OTHER -> "object"

RECURSIVE IsInstance(_, _)
\* isinstance(exc, cls): what an except clause, or the for statement's test
\* for StopIteration, matches.
IsInstance(exc, cls) ==
    IF exc = cls THEN TRUE
    ELSE IF exc \in {"Exception", "object"} THEN FALSE
    ELSE IsInstance(BaseOf(exc), cls)

VARIABLES
    status,          \* self.__status
    writers,         \* self.__writers
    canceled,        \* self.__canceled.is_set()
    status_lock,     \* holder of self.__status_lock, or NoThread
    queue,           \* the items held by queue.Queue, oldest first
    maxsize,         \* queue.Queue's maxsize (0: unbounded)
    now,             \* time.time()
    pc,              \* each thread's position
    inScope,         \* the thread is between __enter__ and __exit__
    frame,           \* each thread's locals: reg, block, deadline, item
    op,              \* the call the thread's caller made last
    result,          \* how the innermost get/put ended
    surfaced,        \* what reached the caller's code
    warned,          \* the call emitted the Unstarted warning
    got,             \* the items each thread received, in order
    putLog,          \* the items enqueued, in order
    nextItem,        \* the next item to put
    cancelReturned,  \* a cancel() call has returned
    cancelAt,        \* cancel() returned "before" / "during" the call, or "no"
    marks            \* len(got) at each read that ended with StopIteration

vars == <<status, writers, canceled, status_lock, queue, maxsize, now, pc,
          inScope, frame, op, result, surfaced, warned, got, putLog,
          nextItem, cancelReturned, cancelAt, marks>>

shared == <<status, writers, canceled, status_lock, queue, maxsize, now>>

NoFrame == [reg |-> 0, block |-> TRUE, deadline |-> None, item |-> 0]

\* Iterqueue.__init__: a fresh lock, status Unstarted, a clear event; the
\* class attribute __writers = 0; the constructor's maxsize argument.
InitQueue(ms) ==
    /\ status = "Unstarted"
    /\ writers = 0
    /\ canceled = FALSE
    /\ status_lock = NoThread
    /\ queue = << >>
    /\ maxsize = ms
    /\ now = 0

InitThreads ==
    /\ pc = [t \in Threads |-> "idle"]
    /\ inScope = [t \in Threads |-> FALSE]
    /\ frame = [t \in Threads |-> NoFrame]
    /\ op = [t \in Threads |-> "none"]
    /\ result = [t \in Threads |-> "none"]
    /\ surfaced = [t \in Threads |-> "none"]
    /\ warned = [t \in Threads |-> FALSE]
    /\ got = [t \in Threads |-> << >>]
    /\ putLog = << >>
    /\ nextItem = 1
    /\ cancelReturned = FALSE
    /\ cancelAt = [t \in Threads |-> "no"]
    /\ marks = [t \in Threads |-> << >>]

\* Iterqueue(): the unbounded queue.
Init == InitQueue(0) /\ InitThreads

\* Iterqueue(maxsize=MaxSize): the bounded queue.
BoundedInit == InitQueue(MaxSize) /\ InitThreads

\* ------------------------------------------------------- call bookkeeping
\* A call starts: the caller's record of the previous call is cleared.
Begin(t, o) ==
    /\ op' = [op EXCEPT ![t] = o]
    /\ cancelAt' = [cancelAt EXCEPT ![t] = IF cancelReturned THEN "before" ELSE "no"]

\* The call has not ended yet.
Pending(t) ==
    /\ result' = [result EXCEPT ![t] = "none"]
    /\ surfaced' = [surfaced EXCEPT ![t] = "none"]

\* enter, exit and cancel return nothing and raise nothing: the caller keeps
\* no record of them.
Forget(t) ==
    /\ op' = [op EXCEPT ![t] = "none"]
    /\ cancelAt' = [cancelAt EXCEPT ![t] = "no"]
    /\ warned' = [warned EXCEPT ![t] = FALSE]
    /\ Pending(t)

\* The thread is inside a call.
Running(t) == pc[t] # "idle"

\* ------------------------------------------------------------ the lock
\* The lock is not looked at.
LockIgnored == TRUE

\* `with self.__status_lock:` goes on only when no thread holds the lock.
LockFree == status_lock = NoThread

\* ------------------------------------------------------------ __enter__
\* `self.__writers += 1` is a load, an add and a store.
EnterAcquire(t) ==
    /\ pc[t] = "idle" /\ ~inScope[t]
    /\ LockFree
    /\ status_lock' = t
    /\ frame' = [frame EXCEPT ![t] = [NoFrame EXCEPT !.reg = writers]]
    /\ pc' = [pc EXCEPT ![t] = "enter_store"]
    /\ Forget(t)
    /\ UNCHANGED <<status, writers, canceled, queue, maxsize, now, inScope,
                   got, putLog, nextItem, cancelReturned, marks>>

EnterStore(t) ==
    /\ pc[t] = "enter_store"
    /\ writers' = frame[t].reg + 1
    /\ pc' = [pc EXCEPT ![t] = "enter_status"]
    /\ UNCHANGED <<status, canceled, status_lock, queue, maxsize, now, inScope,
                   frame, op, result, surfaced, warned, got, putLog, nextItem,
                   cancelReturned, cancelAt, marks>>

\* Only an Unstarted queue is started.
EnterStatusOnce(s) == IF s = "Unstarted" THEN "Started" ELSE s

\* `if self.__status != Status.Started: self.__status = Status.Started`
EnterStatusValue(s) == IF s # "Started" THEN "Started" ELSE s

EnterStatus(t) ==
    /\ pc[t] = "enter_status"
    /\ status' = EnterStatusValue(status)
    /\ status_lock' = NoThread
    /\ inScope' = [inScope EXCEPT ![t] = TRUE]
    /\ frame' = [frame EXCEPT ![t] = NoFrame]
    /\ pc' = [pc EXCEPT ![t] = "idle"]
    /\ UNCHANGED <<writers, canceled, queue, maxsize, now, op, result,
                   surfaced, warned, got, putLog, nextItem, cancelReturned,
                   cancelAt, marks>>

\* ------------------------------------------------------------- __exit__
ExitAcquire(t) ==
    /\ pc[t] = "idle" /\ inScope[t]
    /\ LockFree
    /\ status_lock' = t
    /\ frame' = [frame EXCEPT ![t] = [NoFrame EXCEPT !.reg = writers]]
    /\ pc' = [pc EXCEPT ![t] = "exit_store"]
    /\ Forget(t)
    /\ UNCHANGED <<status, writers, canceled, queue, maxsize, now, inScope,
                   got, putLog, nextItem, cancelReturned, marks>>

ExitStore(t) ==
    /\ pc[t] = "exit_store"
    /\ writers' = frame[t].reg - 1
    /\ pc' = [pc EXCEPT ![t] = "exit_status"]
    /\ UNCHANGED <<status, canceled, status_lock, queue, maxsize, now, inScope,
                   frame, op, result, surfaced, warned, got, putLog, nextItem,
                   cancelReturned, cancelAt, marks>>

\* An __exit__ that sets Stopped without looking at the count.
ExitStatusAlways(s, w) == "Stopped"

\* `if self.__writers < 1: self.__status = Status.Stopped`
ExitStatusValue(s, w) == IF w < 1 THEN "Stopped" ELSE s

ExitStatus(t) ==
    /\ pc[t] = "exit_status"
    /\ status' = ExitStatusValue(status, writers)
    /\ status_lock' = NoThread
    /\ inScope' = [inScope EXCEPT ![t] = FALSE]
    /\ frame' = [frame EXCEPT ![t] = NoFrame]
    /\ pc' = [pc EXCEPT ![t] = "idle"]
    /\ UNCHANGED <<writers, canceled, queue, maxsize, now, op, result,
                   surfaced, warned, got, putLog, nextItem, cancelReturned,
                   cancelAt, marks>>

\* --------------------------------------------------------------- cancel
\* `self.__canceled.set()`, then `self.__status = Status.Canceled`, with no
\* lock taken.
CancelSet(t) ==
    /\ pc[t] = "idle"
    /\ canceled' = TRUE
    /\ pc' = [pc EXCEPT ![t] = "cancel_status"]
    /\ Forget(t)
    /\ UNCHANGED <<status, writers, status_lock, queue, maxsize, now, inScope,
                   frame, got, putLog, nextItem, cancelReturned, marks>>

CancelStatusValue == "Canceled"

\* A cancel that also throws away what is buffered.
CancelStatusClears(t) ==
    /\ pc[t] = "cancel_status"
    /\ status' = CancelStatusValue
    /\ queue' = << >>
    /\ pc' = [pc EXCEPT ![t] = "idle"]
    /\ cancelReturned' = TRUE
    /\ cancelAt' = [u \in Threads |->
                      IF u # t /\ Running(u) /\ op[u] # "none" /\ cancelAt[u] = "no"
                      THEN "during" ELSE cancelAt[u]]
    /\ UNCHANGED <<writers, canceled, status_lock, maxsize, now,
                   inScope, frame, op, result, surfaced, warned, got, putLog,
                   nextItem, marks>>

CancelStatus(t) ==
    /\ pc[t] = "cancel_status"
    /\ status' = CancelStatusValue
    /\ pc' = [pc EXCEPT ![t] = "idle"]
    /\ cancelReturned' = TRUE
    /\ cancelAt' = [u \in Threads |->
                      IF u # t /\ Running(u) /\ op[u] # "none" /\ cancelAt[u] = "no"
                      THEN "during" ELSE cancelAt[u]]
    /\ UNCHANGED <<writers, canceled, status_lock, queue, maxsize, now,
                   inScope, frame, op, result, surfaced, warned, got, putLog,
                   nextItem, marks>>

\* ------------------------------------------------------------------ put
\* The status test of put: Canceled raises, Unstarted warns, and every other
\* status goes on to queue.Queue.put.
PutRaises(s) == s = "Canceled"

\* The warning given for every status but Started.
PutWarnsUnlessStarted(s) == s # "Started"

PutWarns(s) == s = "Unstarted"

\* put(item, block): the status test, made before queue.Queue.put is called.
PutCall(t, o, blk) ==
    /\ pc[t] = "idle"
    /\ nextItem' = nextItem + 1
    /\ Begin(t, o)
    /\ IF PutRaises(status)
       THEN /\ result' = [result EXCEPT ![t] = "Canceled"]
            /\ surfaced' = [surfaced EXCEPT ![t] = "Canceled"]
            /\ warned' = [warned EXCEPT ![t] = FALSE]
            /\ UNCHANGED <<pc, frame>>
       ELSE /\ warned' = [warned EXCEPT ![t] = PutWarns(status)]
            /\ frame' = [frame EXCEPT ![t] =
                           [NoFrame EXCEPT !.block = blk, !.item = nextItem]]
            /\ pc' = [pc EXCEPT ![t] = "put_enqueue"]
            /\ Pending(t)
    /\ UNCHANGED <<shared, inScope, got, putLog, cancelReturned, marks>>

\* queue.Queue.put_nowait(item) is self.put(item, block=False), and self.put
\* is Iterqueue.put.
PutNowaitCall(t) == PutCall(t, "put", FALSE)

\* queue.Queue.put: a full bounded queue raises Full when not blocking and
\* otherwise waits on not_full, a wait that only a get ends.
Full(q, ms) == ms > 0 /\ Len(q) >= ms

PutEnqueue(t) ==
    /\ pc[t] = "put_enqueue"
    /\ IF Full(queue, maxsize)
       THEN /\ ~frame[t].block
            /\ result' = [result EXCEPT ![t] = "Full"]
            /\ surfaced' = [surfaced EXCEPT ![t] = "Full"]
            /\ UNCHANGED <<queue, putLog>>
       ELSE /\ queue' = Append(queue, frame[t].item)
            /\ putLog' = Append(putLog, frame[t].item)
            /\ result' = [result EXCEPT ![t] = "ok"]
            /\ surfaced' = [surfaced EXCEPT ![t] = "ok"]
    /\ frame' = [frame EXCEPT ![t] = NoFrame]
    /\ pc' = [pc EXCEPT ![t] = "idle"]
    /\ UNCHANGED <<status, writers, canceled, status_lock, maxsize, now,
                   inScope, op, warned, got, nextItem, cancelReturned, cancelAt, marks>>

\* ------------------------------------------------------------------ get
\* Python's truth value of a timeout or deadline: None and 0 are false.
Truthy(x) == x # None /\ x # 0

\* `deadline = time.time() + timeout if block and timeout else None`
Deadline(blk, timeout, n) == IF blk /\ Truthy(timeout) THEN n + timeout ELSE None

\* The first test of get's loop.
GetRaises(s) == s = "Canceled"

\* The handler without its test for Stopped.
EmptyOutcomeNoStop(s, blk, deadline, n) ==
    IF deadline # None /\ n < deadline THEN "retry"
    ELSE IF blk /\ deadline = None THEN "retry"
    ELSE "Empty"

\* The handler with the test for Stopped made after the blocking arm: a
\* blocking get with no deadline keeps polling a Stopped queue.
EmptyOutcomeBlockFirst(s, blk, deadline, n) ==
    IF blk /\ deadline = None THEN "retry"
    ELSE IF s = "Stopped" THEN "StopIteration"
    ELSE IF deadline # None /\ n < deadline THEN "retry"
    ELSE "Empty"

\* The handler with `if block and not deadline` reduced to `if not deadline`.
EmptyOutcomeAlwaysWaits(s, blk, deadline, n) ==
    IF s = "Stopped" THEN "StopIteration"
    ELSE IF deadline # None /\ n < deadline THEN "retry"
    ELSE IF deadline = None THEN "retry"
    ELSE "Empty"

\* The `except queue.Empty:` branch of get: which of its arms is taken.
EmptyOutcome(s, blk, deadline, n) ==
    IF s = "Stopped" THEN "StopIteration"
    ELSE IF deadline # None /\ n < deadline THEN "retry"
    ELSE IF blk /\ deadline = None THEN "retry"
    ELSE "Empty"

\* iter_nowait's generator body around get_nowait: `except Canceled: raise`
\* lets the exception leave the body, `except StopIteration: pass` ends the
\* generator, anything else (queue.Empty) leaves the body.  A StopIteration
\* (Canceled is one) that leaves a generator body reaches the consumer as a
\* RuntimeError (PEP 479); a generator that ends stops the consumer's loop.
GeneratorEnd(exc) ==
    IF IsInstance(exc, "Canceled")
    THEN (IF IsInstance(exc, "StopIteration") THEN "RuntimeError" ELSE exc)
    ELSE IF IsInstance(exc, "StopIteration") THEN "normal"
    ELSE exc

\* The for statement (and list()) over the queue itself: __next__ is get(),
\* and the loop ends normally on any StopIteration instance.
ForEnd(exc) == IF IsInstance(exc, "StopIteration") THEN "normal" ELSE exc

\* What the caller's code sees when the innermost get raises exc.
Surfaces(o, exc) ==
    CASE o = "for" -> ForEnd(exc)
      [] o = "drain" -> GeneratorEnd(exc)
      [] OTHER -> exc

Loops == {"for", "drain"}

\* The reads that ended with StopIteration: the number of items received is
\* noted when it has grown since the last such end.
Mark(ms, exc, n) ==
    IF exc = "StopIteration" /\ (ms = << >> \/ ms[Len(ms)] < n)
    THEN Append(ms, n) ELSE ms

\* get raises exc.
Raise(t, exc) ==
    /\ result' = [result EXCEPT ![t] = exc]
    /\ surfaced' = [surfaced EXCEPT ![t] = Surfaces(op[t], exc)]
    /\ frame' = [frame EXCEPT ![t] = NoFrame]
    /\ pc' = [pc EXCEPT ![t] = "idle"]
    /\ marks' = [marks EXCEPT ![t] = Mark(@, exc, Len(got[t]))]
    /\ UNCHANGED got

\* get returns item: a plain call ends; a loop takes the item and calls
\* get again with the same arguments.
Return(t, item) ==
    /\ got' = [got EXCEPT ![t] = Append(@, item)]
    /\ IF op[t] \in Loops
       THEN /\ pc' = [pc EXCEPT ![t] = "get_check"]
            /\ UNCHANGED <<result, surfaced, frame>>
       ELSE /\ result' = [result EXCEPT ![t] = "ok"]
            /\ surfaced' = [surfaced EXCEPT ![t] = "ok"]
            /\ frame' = [frame EXCEPT ![t] = NoFrame]
            /\ pc' = [pc EXCEPT ![t] = "idle"]

\* get(block, timeout) is entered: the deadline is computed.
GetCall(t, o, blk, timeout) ==
    /\ pc[t] = "idle"
    /\ Deadline(blk, timeout, now) <= MaxTime
    /\ Begin(t, o)
    /\ Pending(t)
    /\ warned' = [warned EXCEPT ![t] = FALSE]
    /\ frame' = [frame EXCEPT ![t] =
                   [NoFrame EXCEPT !.block = blk,
                                   !.deadline = Deadline(blk, timeout, now)]]
    /\ pc' = [pc EXCEPT ![t] = "get_check"]
    /\ UNCHANGED <<shared, inScope, got, putLog, nextItem, cancelReturned, marks>>

\* `return self.get(block=False)`
GetNowaitCall(t) == GetCall(t, "get_nowait", FALSE, None)

\* `for x in queue:` / list(queue): __iter__ returns self and each __next__
\* is `self.get()`.
ForCall(t) == GetCall(t, "for", TRUE, None)

\* `for x in queue.iter_nowait():` each step is `yield self.get_nowait()`.
DrainCall(t) == GetCall(t, "drain", FALSE, None)

\* `if self.__status == Status.Canceled: raise Canceled(CANCELED_TEXT)`
GetCheck(t) ==
    /\ pc[t] = "get_check"
    /\ IF GetRaises(status)
       THEN Raise(t, "Canceled")
       ELSE /\ pc' = [pc EXCEPT ![t] = "get_try"]
            /\ UNCHANGED <<result, surfaced, frame, got, marks>>
    /\ UNCHANGED <<shared, inScope, op, warned, putLog, nextItem,
                   cancelReturned, cancelAt>>

\* A get that hands out the newest item while the oldest one is removed.
DequeueNewest(q) == q[Len(q)]

\* queue.Queue.get(block=False): the oldest item, or queue.Empty.
Dequeue(q) == Head(q)

GetTry(t) ==
    /\ pc[t] = "get_try"
    /\ IF queue # << >>
       THEN /\ Return(t, Dequeue(queue))
            /\ queue' = Tail(queue)
       ELSE /\ pc' = [pc EXCEPT ![t] = "get_empty"]
            /\ UNCHANGED <<queue, result, surfaced, frame, got>>
    /\ UNCHANGED <<status, writers, canceled, status_lock, maxsize, now,
                   inScope, op, warned, putLog, nextItem, cancelReturned,
                   cancelAt, marks>>

\* The handler of queue.Empty; `time.sleep(SPIN_TIME); continue` goes back
\* to the first test of the loop.
GetEmpty(t) ==
    /\ pc[t] = "get_empty"
    /\ LET out == EmptyOutcome(status, frame[t].block, frame[t].deadline, now)
       IN IF out = "retry"
          THEN /\ pc' = [pc EXCEPT ![t] = "get_check"]
               /\ UNCHANGED <<result, surfaced, frame, got, marks>>
          ELSE Raise(t, out)
    /\ UNCHANGED <<shared, inScope, op, warned, putLog, nextItem,
                   cancelReturned, cancelAt>>

\* time.time() advances.
Tick ==
    /\ now < MaxTime
    /\ now' = now + 1
    /\ UNCHANGED <<status, writers, canceled, status_lock, queue, maxsize, pc,
                   inScope, frame, op, result, surfaced, warned, got, putLog,
                   nextItem, cancelReturned, cancelAt, marks>>

\* ------------------------------------------------------- specifications
\* Threads running concurrently: writers open a scope, put inside it and
\* close it; a reader gets, iterates and drains; a canceller cancels.
WriterStep(t) ==
    \/ EnterAcquire(t) \/ EnterStore(t) \/ EnterStatus(t)
    \/ ExitAcquire(t) \/ ExitStore(t) \/ ExitStatus(t)
    \/ (inScope[t] /\ nextItem <= MaxItems /\ PutCall(t, "put", TRUE))
    \/ (inScope[t] /\ nextItem <= MaxItems /\ PutNowaitCall(t))
    \/ PutEnqueue(t)

ReaderStep(t) ==
    \/ GetCall(t, "get", TRUE, None)
    \/ GetNowaitCall(t)
    \/ ForCall(t)
    \/ DrainCall(t)
    \/ GetCheck(t) \/ GetTry(t) \/ GetEmpty(t)

CancelStep(t) == CancelSet(t) \/ CancelStatus(t)

Next ==
    \/ \E t \in Writers : WriterStep(t)
    \/ \E t \in Readers : ReaderStep(t)
    \/ \E t \in Cancellers : CancelStep(t)

Spec == Init /\ [][Next]_vars

\* One thread making one call after the other, as the unit tests do: scopes
\* and puts (inside a scope or not), then reads of every kind; no cancel.
SeqNext ==
    \/ EnterAcquire(Main) \/ EnterStore(Main) \/ EnterStatus(Main)
    \/ ExitAcquire(Main) \/ ExitStore(Main) \/ ExitStatus(Main)
    \/ (nextItem <= SeqItems /\ PutCall(Main, "put", TRUE))
    \/ (nextItem <= SeqItems /\ PutNowaitCall(Main))
    \/ PutEnqueue(Main)
    \/ GetCall(Main, "get", TRUE, None)
    \/ GetNowaitCall(Main)
    \/ ForCall(Main)
    \/ DrainCall(Main)
    \/ GetCheck(Main) \/ GetTry(Main) \/ GetEmpty(Main)

SeqSpec == Init /\ [][SeqNext]_vars

\* Writers only: three threads open and close scopes and put inside them,
\* while a canceller may cancel.
ScopeWriters == Writers \cup {"w3"}

ScopeNext ==
    \/ \E t \in ScopeWriters :
          \/ EnterAcquire(t) \/ EnterStore(t) \/ EnterStatus(t)
          \/ ExitAcquire(t) \/ ExitStore(t) \/ ExitStatus(t)
          \/ (inScope[t] /\ nextItem <= MaxItems /\ PutCall(t, "put", TRUE))
          \/ PutEnqueue(t)
    \/ \E t \in Cancellers : CancelStep(t)

ScopeSpec == Init /\ [][ScopeNext]_vars

\* A pool of readers on a filled queue: the main thread opens a scope, puts
\* and closes it; then the reader threads call get and get_nowait at once.
PoolFilling == \A r \in PoolReaders : op[r] = "none"

PoolFilled == pc[Main] = "idle" /\ ~inScope[Main] /\ status = "Stopped"

PoolNext ==
    \/ (PoolFilling /\ EnterAcquire(Main))
    \/ EnterStore(Main) \/ EnterStatus(Main)
    \/ ExitAcquire(Main) \/ ExitStore(Main) \/ ExitStatus(Main)
    \/ (PoolFilling /\ inScope[Main] /\ nextItem <= PoolItems
           /\ PutCall(Main, "put", TRUE))
    \/ PutEnqueue(Main)
    \/ \E r \in PoolReaders :
          \/ (PoolFilled /\ GetCall(r, "get", TRUE, None))
          \/ (PoolFilled /\ GetNowaitCall(r))
          \/ GetCheck(r) \/ GetTry(r) \/ GetEmpty(r)

PoolSpec == Init /\ [][PoolNext]_vars

\* The steps that carry on a call already entered: the thread making the call
\* is running and is scheduled again.
Continue(t) ==
    \/ EnterStore(t) \/ EnterStatus(t)
    \/ ExitStore(t) \/ ExitStatus(t)
    \/ CancelStatus(t)
    \/ PutEnqueue(t)
    \/ GetCheck(t) \/ GetTry(t) \/ GetEmpty(t)

\* Every running thread is scheduled again and again.
Fairness == \A t \in Threads : WF_vars(Continue(t))

\* One writer, one reader and one canceller running concurrently, each
\* scheduled again while its call is in progress.
PairNext ==
    \/ WriterStep("w1")
    \/ ReaderStep("r1")
    \/ CancelStep("c1")

PairSpec == Init /\ [][PairNext]_vars /\ Fairness

\* A bounded queue (maxsize = MaxSize) with writers and a canceller and no
\* reader: one put more than the queue holds can be made.
BoundedItems == MaxSize + 1

BoundedNext ==
    \/ \E t \in Writers :
          \/ EnterAcquire(t) \/ EnterStore(t) \/ EnterStatus(t)
          \/ ExitAcquire(t) \/ ExitStore(t) \/ ExitStatus(t)
          \/ (inScope[t] /\ nextItem <= BoundedItems /\ PutCall(t, "put", TRUE))
          \/ (inScope[t] /\ nextItem <= BoundedItems /\ PutNowaitCall(t))
          \/ PutEnqueue(t)
    \/ \E t \in Cancellers : CancelStep(t)

BoundedSpec == BoundedInit /\ [][BoundedNext]_vars /\ Fairness

\* Timed reads: a reader calls get(block=True, timeout) with each timeout of
\* 0 .. MaxTime while the clock advances and the main thread puts items
\* without entering a scope (the status stays Unstarted).
Timeouts == 0 .. MaxTime

TimedNext ==
    \/ \E tm \in Timeouts : GetCall("r1", "get_timed", TRUE, tm)
    \/ GetCheck("r1") \/ GetTry("r1") \/ GetEmpty("r1")
    \/ (nextItem <= MaxItems /\ PutCall(Main, "put", TRUE))
    \/ PutEnqueue(Main)
    \/ Tick

TimedSpec == Init /\ [][TimedNext]_vars /\ Fairness /\ WF_vars(Tick)

\* --------------------------------------------------------------- claims
ReadOps == {"get", "get_nowait", "for", "drain"}

\* The call of t has ended.
Ended(t) == pc[t] = "idle" /\ surfaced[t] # "none"

\* __enter__ has returned to t and t has not called __exit__ yet.
ScopeOpen(t) == inScope[t] /\ pc[t] \notin {"exit_store", "exit_status"}

\* The writer count holds t's increment: stored by __enter__ and not yet
\* taken back by __exit__.
Counted(t) ==
    \/ pc[t] = "enter_status"
    \/ (inScope[t] /\ pc[t] # "exit_status")

\* C1: once a cancel() call has returned, canceled is true and status is
\* Canceled in every later state, whatever scopes are entered or exited.
C1_CancelPermanent ==
    cancelReturned => (canceled /\ status = "Canceled")

\* C2: a put, put_nowait, get or get_nowait that starts after cancel() has
\* returned ends with the Canceled error.
C2_AfterCancelAllFail ==
    \A t \in Threads :
        (Ended(t) /\ cancelAt[t] = "before" /\ op[t] \in {"put", "get", "get_nowait"})
            => result[t] = "Canceled"

\* C3: with one thread and no cancel, the items received followed by the
\* items still buffered are the items put, in order; a read that ends with
\* StopIteration has received every item put; and a read that fails on a
\* Stopped queue fails with StopIteration.
C3_SingleReaderFIFO ==
    /\ got[Main] \o queue = putLog
    /\ (pc[Main] = "idle" /\ result[Main] = "StopIteration")
           => (got[Main] = putLog /\ status = "Stopped")
    /\ (Ended(Main) /\ op[Main] \in ReadOps /\ result[Main] # "ok"
           /\ status = "Stopped")
           => result[Main] = "StopIteration"
    /\ (Ended(Main) /\ op[Main] = "for") => surfaced[Main] = "normal"

\* Three items put in scopes, received in order by three get calls, and the
\* fourth get has ended with StopIteration.
C3_Witness ==
    /\ Ended(Main) /\ op[Main] = "get" /\ result[Main] = "StopIteration"
    /\ got[Main] = <<1, 2, 3>>
    /\ marks[Main] = <<3>>
    /\ ~warned[Main] /\ status = "Stopped"

\* C4: the writer count is the number of scopes whose increment is stored
\* and not taken back; with no cancel, status is Started while a scope is
\* open, and Stopped with a count of 0 once every scope opened is closed.
C4_WriterCount ==
    /\ writers = Cardinality({t \in Threads : Counted(t)})
    /\ (~canceled /\ (\E t \in Threads : ScopeOpen(t))) => status = "Started"
    /\ (~canceled /\ (\A t \in Threads : ~inScope[t] /\ pc[t] = "idle"))
           => /\ writers = 0
              /\ status \in {"Unstarted", "Stopped"}
              /\ (putLog # << >> => status = "Stopped")

\* Three scopes open at once, no cancel.
C4_Witness ==
    /\ ~canceled
    /\ Cardinality({t \in Threads : ScopeOpen(t) /\ pc[t] = "idle"}) = 3
    /\ writers = 3 /\ status = "Started"

\* Every scope closed again after an item was put, no cancel.
C4_ClosedWitness ==
    /\ ~canceled /\ putLog # << >>
    /\ \A t \in Threads : ~inScope[t] /\ pc[t] = "idle"
    /\ writers = 0 /\ status = "Stopped"

\* C5: when the reader's for loop ends (no cancel), the reader has received
\* every item put so far.
C5_ReaderCollectsAll ==
    [][\A r \in Readers :
          (op[r] = "for" /\ pc[r] # "idle" /\ pc'[r] = "idle"
              /\ surfaced'[r] = "normal" /\ ~canceled')
          => got'[r] = putLog']_vars

\* C6: a blocking get with no deadline during which cancel() returned does
\* not fail with anything but Canceled.
C6_BlockedReaderCanceled ==
    \A r \in Readers :
        (Ended(r) /\ op[r] = "get" /\ cancelAt[r] = "during" /\ result[r] # "ok")
            => result[r] = "Canceled"

C8_CanceledEndsLoopAbnormally ==
    \A r \in Readers :
        (Ended(r) /\ op[r] = "for" /\ result[r] = "Canceled")
            => surfaced[r] = "Canceled"

\* C9: with no cancel, a drain with iter_nowait ends normally, in every
\* status, after it yielded every buffered item.
C9_DrainEndsNormally ==
    (Ended(Main) /\ op[Main] = "drain")
        => (surfaced[Main] = "normal" /\ queue = << >>)

\* C10: a drain during which cancel() returned and whose get_nowait raised
\* Canceled ends with Canceled reaching the consumer.
C10_DrainSurfacesCanceled ==
    \A r \in Readers :
        (Ended(r) /\ op[r] = "drain" /\ cancelAt[r] = "during"
            /\ result[r] = "Canceled")
            => surfaced[r] = "Canceled"

\* The positions of a thread inside get.
GetPcs == {"get_check", "get_try", "get_empty"}

\* C11: every step of a get_nowait (get with block=False) made on an empty
\* queue in status Unstarted or Started leaves buffer, status, writer count
\* and canceled flag as they are; the call never goes back to the head of
\* the loop, and its Empty handler raises queue.Empty.
C11_NowaitFailsAtOnce ==
    [][(/\ op'[Main] = "get_nowait"
        /\ (pc[Main] \in GetPcs \/ pc'[Main] \in GetPcs)
        /\ queue = << >>
        /\ status \in {"Unstarted", "Started"})
       => /\ UNCHANGED <<queue, status, writers, canceled>>
          /\ (pc'[Main] = "get_check") => (pc[Main] = "idle")
          /\ (pc[Main] = "get_empty")
                 => (pc'[Main] = "idle" /\ result'[Main] = "Empty"
                        /\ surfaced'[Main] = "Empty")]_vars

\* A get_nowait inside an open scope, after the pre-filled item was taken,
\* has ended with queue.Empty.
C11_Witness ==
    /\ Ended(Main) /\ op[Main] = "get_nowait" /\ result[Main] = "Empty"
    /\ status = "Started" /\ writers = 1 /\ ~canceled
    /\ queue = << >> /\ got[Main] = <<1>>

\* C12 (as the code has it): a blocking get with no deadline whose handler
\* runs on a Stopped queue with no open scope, after everything put was
\* received, ends in that step with StopIteration; nothing is received and
\* the buffer stays empty.
C12_FourthGetEnds ==
    [][(/\ op[Main] = "get" /\ pc[Main] = "get_empty"
        /\ status = "Stopped" /\ writers = 0
        /\ got[Main] = putLog)
       => /\ pc'[Main] = "idle"
          /\ result'[Main] = "StopIteration"
          /\ surfaced'[Main] = "StopIteration"
          /\ UNCHANGED <<queue, got, status, writers>>]_vars

\* 1, 2, 3 put and the scope closed, three gets returned them, and the
\* fourth get has ended with StopIteration on the empty Stopped queue.
C12_Witness ==
    /\ Ended(Main) /\ op[Main] = "get" /\ result[Main] = "StopIteration"
    /\ putLog = <<1, 2, 3>> /\ got[Main] = <<1, 2, 3>> /\ queue = << >>
    /\ nextItem = 4 /\ writers = 0 /\ status = "Stopped" /\ ~inScope[Main]

\* C12 (as stated): after 1, 2, 3 were put, the scope closed and all three
\* received, the fourth blocking get stays blocked: its handler goes back to
\* polling while no scope is entered and no cancel is made.
C12_FourthGetStaysBlocked ==
    [][(/\ op[Main] = "get" /\ pc[Main] = "get_empty"
        /\ status = "Stopped" /\ writers = 0
        /\ putLog = <<1, 2, 3>> /\ got[Main] = <<1, 2, 3>>)
       => pc'[Main] = "get_check"]_vars

\* The items of a sequence.
Range(sq) == {sq[i] : i \in 1 .. Len(sq)}

\* The items of sq are in put order (the items put are 1, 2, ... in order).
InPutOrder(sq) == \A i, j \in 1 .. Len(sq) : i < j => sq[i] < sq[j]

\* C13: with several readers on one queue, no item is received twice or by
\* two readers, what the readers received and what is still buffered are
\* together the items put, each reader has its items in put order, and a
\* read of the filled, Stopped queue fails only with StopIteration and only
\* when every item has been received.
C13_ExactlyOnce ==
    LET all == UNION {Range(got[r]) : r \in PoolReaders}
        count(n, r) == Cardinality({i \in 1 .. Len(got[r]) : got[r][i] = n})
    IN /\ putLog = [i \in 1 .. Len(putLog) |-> i]
       /\ \A r \in PoolReaders : InPutOrder(got[r])
       /\ InPutOrder(queue)
       /\ \A n \in Range(putLog) :
              Cardinality({r \in PoolReaders : count(n, r) = 1})
                 + (IF n \in Range(queue) THEN 1 ELSE 0) = 1
       /\ \A n \in Range(putLog), r \in PoolReaders : count(n, r) <= 1
       /\ all \cup Range(queue) = Range(putLog)
       /\ \A r \in PoolReaders :
              (Ended(r) /\ result[r] # "ok")
                  => /\ result[r] = "StopIteration"
                     /\ queue = << >>
                     /\ all = Range(putLog)

\* Three items shared by two readers, each of which then got StopIteration.
C13_Witness ==
    /\ putLog = <<1, 2, 3>> /\ queue = << >>
    /\ got["r1"] = <<1, 3>> /\ got["r2"] = <<2>>
    /\ \A r \in PoolReaders : Ended(r) /\ result[r] = "StopIteration"
    /\ op["r1"] = "get" /\ op["r2"] = "get_nowait"

\* C14: a blocking put that waits on a full bounded queue, and during which
\* cancel() was called and returned, ends under fair scheduling with
\* Canceled, without any reader taking an item.
C14_BlockedPutCanceled ==
    \A t \in Writers :
        (/\ pc[t] = "put_enqueue" /\ frame[t].block
         /\ Full(queue, maxsize)
         /\ cancelAt[t] = "during" /\ status = "Canceled")
            ~> (Ended(t) /\ result[t] = "Canceled")

\* C15: under fair scheduling and an advancing clock, a get(block=True,
\* timeout) with any timeout of 0 or more ends: with an item, or with
\* queue.Empty when the queue stayed empty and Unstarted.
C15_TimedGetTerminates ==
    (pc["r1"] \in GetPcs /\ op["r1"] = "get_timed")
        ~> (Ended("r1") /\ result["r1"] \in {"ok", "Empty"})

\* C16: a put warns exactly when the status is Unstarted; a put on an
\* Unstarted queue succeeds, its item is the newest one buffered, status
\* stays Unstarted and the writer count 0; the items are received in the
\* order they were put.
C16_UnstartedPutWarns ==
    /\ warned[Main] => op[Main] = "put"
    /\ (op[Main] = "put" /\ (pc[Main] = "put_enqueue" \/ Ended(Main)))
           => (warned[Main] <=> status = "Unstarted")
    /\ (Ended(Main) /\ op[Main] = "put" /\ status = "Unstarted")
           => /\ result[Main] = "ok"
              /\ queue # << >>
              /\ queue[Len(queue)] = nextItem - 1
              /\ writers = 0 /\ ~canceled
    /\ got[Main] \o queue = [i \in 1 .. Len(putLog) |-> i]

\* Three puts with no scope ever entered, each with its warning, and a get
\* between them that returned the first item.
C16_Witness ==
    /\ Ended(Main) /\ op[Main] = "put" /\ result[Main] = "ok" /\ warned[Main]
    /\ status = "Unstarted" /\ writers = 0
    /\ got[Main] = <<1>> /\ queue = <<2, 3>>

\* A put inside a scope and a put after the scope was closed: no warning.
C16_QuietWitness ==
    /\ Ended(Main) /\ op[Main] = "put" /\ result[Main] = "ok" /\ ~warned[Main]
    /\ status = "Stopped" /\ queue = <<1, 2>>

\* C17: whenever a get ends with StopIteration (no cancel made), the buffer
\* is empty and the status is Stopped at that moment.
C17_EndOnlyWhenEmpty ==
    [][\A r \in Readers :
          (/\ pc[r] = "get_empty" /\ pc'[r] = "idle"
           /\ result'[r] = "StopIteration" /\ ~canceled)
          => (queue = << >> /\ status = "Stopped")]_vars

\* C18: a get whose Empty handler runs while the status is Stopped ends in
\* that step with StopIteration; and, under fair scheduling, a reader inside
\* get while the status is Stopped ends with an item or with StopIteration,
\* unless the status leaves Stopped (a new scope or a cancel).
C18_ClosingReleasesReaders ==
    /\ [][\A r \in Readers :
             (pc[r] = "get_empty" /\ status = "Stopped" /\ pc'[r] # pc[r])
             => (/\ pc'[r] = "idle"
                 /\ result'[r] = "StopIteration"
                 /\ UNCHANGED queue)]_vars
    /\ \A r \in Readers :
          (pc[r] \in GetPcs /\ status = "Stopped")
             ~> \/ (Ended(r) /\ result[r] \in {"ok", "StopIteration"})
                \/ status # "Stopped"

\* A blocking get that took the one item put has been followed by a blocking
\* get that ended with StopIteration after the scope was closed, no cancel.
C18_Witness ==
    /\ Ended("r1") /\ op["r1"] = "get" /\ result["r1"] = "StopIteration"
    /\ ~canceled /\ status = "Stopped" /\ writers = 0
    /\ putLog = <<1>> /\ got["r1"] = <<1>> /\ queue = << >>
    /\ cancelAt["r1"] = "no"

DataPcs == GetPcs \cup {"put_enqueue"}

ScopePcs == {"enter_store", "enter_status", "exit_store", "exit_status",
             "cancel_status"}

\* C20: a step of get, get_nowait, put, put_nowait or iter_nowait leaves
\* status, writer count and canceled flag as they are; a step of __enter__,
\* __exit__ or cancel leaves the buffer as it is; and so does the step in
\* which a get fails (Empty, StopIteration, Canceled) or a put is entered
\* (where it may fail with Canceled).
C20_Frame ==
    [][/\ \A t \in Threads :
             (pc'[t] # pc[t] /\ (pc[t] \in DataPcs \/ pc'[t] \in DataPcs))
                => UNCHANGED <<status, writers, canceled>>
       /\ (nextItem' # nextItem) => UNCHANGED <<status, writers, canceled, queue>>
       /\ \A t \in Threads :
             (pc'[t] # pc[t] /\ (pc[t] \in ScopePcs \/ pc'[t] \in ScopePcs))
                => UNCHANGED queue
       /\ \A t \in Threads :
             (/\ pc[t] \in GetPcs /\ pc'[t] = "idle"
              /\ result'[t] \in {"Empty", "StopIteration", "Canceled"})
                => UNCHANGED queue]_vars

\* With an item buffered: a put has failed with Canceled and a get has
\* failed with Canceled, after a cancel made inside an open scope.
C20_Witness ==
    /\ Ended("w1") /\ op["w1"] = "put" /\ result["w1"] = "Canceled"
    /\ Ended("r1") /\ op["r1"] = "get" /\ result["r1"] = "Canceled"
    /\ queue = <<1>> /\ status = "Canceled" /\ writers = 1 /\ canceled

====
